---- MODULE Spec2Model ----
(***************************************************************************)
(* Model of brian2/sphinxext/generate_reference.py: the walk over the      *)
(* package tree, the exclusion rules, the symbol ownership filter, the     *)
(* shortest-import search and the stub files written to the destination.   *)
(*                                                                         *)
(* Strings are sequences of one-character strings, so that prefix tests,   *)
(* splitting and sorting are computed character by character as the code   *)
(* computes them.                                                          *)
(***************************************************************************)
EXTENDS Integers, Sequences, FiniteSets, TLC

VARIABLES
    \* the environment of a run: fixed while the program runs
    fs,             \* the source tree: [dirs: set of paths, files: path -> size]
    rootarg,        \* main's rootpath argument, as given
    raw_excludes,   \* main's exclude_dirs argument, as given
    exclude_files,  \* main's exclude_files argument
    env,            \* the import system: what each module binds, what fails
    \* the program
    status,         \* "init", "walking", "done", "error"
    error,          \* the exception that ended the run, or "none"
    destdir_exists, \* whether the destination directory exists
    dest,           \* the destination directory: file name -> text
    exclude_dirs,   \* main's normalized exclusion rules
    rootpath,       \* recurse_tree's absolute root
    root_package,   \* recurse_tree's root_package (NONE for None)
    stack,          \* os.walk's directories still to visit, next first
    toplevels,      \* recurse_tree's list of documented packages
    log,            \* the writes and load failures of the run, in order
    run,            \* the number of the current run of main
    prev,           \* destination and package list at the end of the previous run
    \* direct calls of the pure functions
    pc,             \* "ready", "called"
    args,           \* the arguments of the call
    result          \* its result

walkVars == <<fs, rootarg, raw_excludes, exclude_files, env, status, error,
              destdir_exists, dest, exclude_dirs, rootpath, root_package,
              stack, toplevels, log, run, prev>>
callVars == <<pc, args, result>>
vars == <<walkVars, callVars>>

NONE == <<"None">>

----------------------------------------------------------------------------
(* Strings                                                                 *)

\* the code point of a character (the characters the model uses)
Ord(c) ==
    CASE c = "." -> 46 [] c = "/" -> 47 [] c = "2" -> 50
      [] c = "C" -> 67 [] c = "P" -> 80 [] c = "Z" -> 90 [] c = "_" -> 95
      [] c = "a" -> 97 [] c = "b" -> 98 [] c = "d" -> 100 [] c = "f" -> 102
      [] c = "h" -> 104 [] c = "i" -> 105 [] c = "m" -> 109 [] c = "n" -> 110
      [] c = "o" -> 111 [] c = "p" -> 112 [] c = "r" -> 114 [] c = "s" -> 115
      [] c = "t" -> 116 [] c = "v" -> 118 [] c = "w" -> 119 [] c = "x" -> 120
      [] c = "y" -> 121

\* s.startswith(p)
StartsWith(s, p) == Len(p) <= Len(s) /\ SubSeq(s, 1, Len(p)) = p

\* s.endswith(p)
EndsWith(s, p) == Len(p) <= Len(s) /\ SubSeq(s, Len(s) - Len(p) + 1, Len(s)) = p

\* s < t for Python strings: lexicographic by code point
RECURSIVE StrLess(_, _)
StrLess(s, t) ==
    IF t = <<>> THEN FALSE
    ELSE IF s = <<>> THEN TRUE
    ELSE IF Head(s) = Head(t) THEN StrLess(Tail(s), Tail(t))
    ELSE Ord(Head(s)) < Ord(Head(t))

\* s.split(c)
RECURSIVE SplitAcc(_, _, _)
SplitAcc(s, c, cur) ==
    IF s = <<>> THEN <<cur>>
    ELSE IF Head(s) = c THEN <<cur>> \o SplitAcc(Tail(s), c, <<>>)
    ELSE SplitAcc(Tail(s), c, Append(cur, Head(s)))
Split(s, c) == SplitAcc(s, c, <<>>)

\* c.join(parts)
RECURSIVE JoinWith(_, _)
JoinWith(parts, c) ==
    IF parts = <<>> THEN <<>>
    ELSE IF Len(parts) = 1 THEN Head(parts)
    ELSE Head(parts) \o <<c>> \o JoinWith(Tail(parts), c)

\* s.replace(c, d) for single characters
Replace(s, c, d) == [i \in 1..Len(s) |-> IF s[i] = c THEN d ELSE s[i]]

\* s.lstrip(c)
RECURSIVE LStrip(_, _)
LStrip(s, c) == IF s # <<>> /\ Head(s) = c THEN LStrip(Tail(s), c) ELSE s

\* sorted(list): insertion into the sorted rest
RECURSIVE SortedInsert(_, _)
SortedInsert(x, s) ==
    IF s = <<>> THEN <<x>>
    ELSE IF StrLess(x, Head(s)) THEN <<x>> \o s
    ELSE <<Head(s)>> \o SortedInsert(x, Tail(s))
RECURSIVE sorted(_)
sorted(s) == IF s = <<>> THEN <<>> ELSE SortedInsert(Head(s), sorted(Tail(s)))

\* [x for x in s if x in keep]
RECURSIVE Filter(_, _)
Filter(s, keep) ==
    IF s = <<>> THEN <<>>
    ELSE (IF Head(s) \in keep THEN <<Head(s)>> ELSE <<>>) \o Filter(Tail(s), keep)

Range(s) == {s[i] : i \in 1..Len(s)}

\* the orders in which a listing can return the members of a set
Listings(S) ==
    {s \in [1..Cardinality(S) -> S] : \A i, j \in 1..Cardinality(S) : s[i] = s[j] => i = j}

----------------------------------------------------------------------------
(* os.path on a POSIX system                                               *)

sep == "/"
CWD == <<"/", "w">>

\* path.isabs(p)
isabs(p) == StartsWith(p, <<sep>>)

\* path.join(a, b)
join(a, b) ==
    IF isabs(b) THEN b
    ELSE IF a = <<>> \/ EndsWith(a, <<sep>>) THEN a \o b
    ELSE a \o <<sep>> \o b

\* the component loop of path.normpath
RECURSIVE NormComps(_, _, _)
NormComps(comps, acc, initial) ==
    IF comps = <<>> THEN acc
    ELSE LET comp == Head(comps) IN
         IF comp = <<>> \/ comp = <<".">> THEN NormComps(Tail(comps), acc, initial)
         ELSE IF comp # <<".", ".">>
                 \/ (initial = 0 /\ acc = <<>>)
                 \/ (acc # <<>> /\ acc[Len(acc)] = <<".", ".">>)
              THEN NormComps(Tail(comps), Append(acc, comp), initial)
         ELSE IF acc # <<>>
              THEN NormComps(Tail(comps), SubSeq(acc, 1, Len(acc) - 1), initial)
         ELSE NormComps(Tail(comps), acc, initial)

\* path.normpath(p)
normpath(p) ==
    IF p = <<>> THEN <<".">>
    ELSE LET initial == IF ~isabs(p) THEN 0
                        ELSE IF StartsWith(p, <<sep, sep>>) /\ ~StartsWith(p, <<sep, sep, sep>>)
                             THEN 2 ELSE 1
             body == JoinWith(NormComps(Split(p, sep), <<>>, initial), sep)
             out == [i \in 1..initial |-> sep] \o body
         IN IF out = <<>> THEN <<".">> ELSE out

\* path.abspath(p)
abspath(p) == normpath(IF isabs(p) THEN p ELSE join(CWD, p))

\* path.split(p)[-1]
basename(p) == LET parts == Split(p, sep) IN parts[Len(parts)]

\* path.split(p)[0] for a normalized path
dirname(p) ==
    LET parts == Split(p, sep)
        head == JoinWith(SubSeq(parts, 1, Len(parts) - 1), sep)
    IN IF head = <<>> /\ isabs(p) THEN <<sep>> ELSE head

\* path.splitext(f): the extension starts at the last dot that follows a
\* character other than a dot
SplitExtAt(f) ==
    LET dots == {i \in 1..Len(f) : f[i] = "." /\ \E j \in 1..(i - 1) : f[j] # "."}
    IN IF dots = {} THEN Len(f) + 1 ELSE CHOOSE i \in dots : \A j \in dots : j <= i
splitext(f) == <<SubSeq(f, 1, SplitExtAt(f) - 1), SubSeq(f, SplitExtAt(f), Len(f))>>

----------------------------------------------------------------------------
(* Exclusion rules                                                         *)

\* lines 272-275: whether root starts with one of the rules
RECURSIVE AnyPrefix(_, _)
AnyPrefix(root, excludes) ==
    IF excludes = <<>> THEN FALSE
    ELSE IF StartsWith(root, Head(excludes)) THEN TRUE
    ELSE AnyPrefix(root, Tail(excludes))

\* a mutant of is_excluded: the candidate is tested without the trailing
\* separator
is_excluded_nosep(root, excludes) == AnyPrefix(root, excludes)

\* is_excluded(root, excludes)
is_excluded(root, excludes) ==
    LET r == IF ~EndsWith(root, <<sep>>) THEN root \o <<sep>> ELSE root
    IN AnyPrefix(r, excludes)

\* normalize_excludes(rootpath, excludes)
RECURSIVE normalize_excludes(_, _)
normalize_excludes(rp, excludes) ==
    IF excludes = <<>> THEN <<>>
    ELSE LET e0 == Head(excludes)
             e1 == IF ~isabs(e0) /\ ~StartsWith(e0, rp) THEN join(rp, e0) ELSE e0
         IN <<normpath(e1) \o <<sep>>>> \o normalize_excludes(rp, Tail(excludes))

----------------------------------------------------------------------------
(* Names                                                                   *)

INITPY == <<"_", "_", "i", "n", "i", "t", "_", "_", ".", "p", "y">>
PYEXT == <<".", "p", "y">>
BASENAME == <<"b", "r", "i", "a", "n", "2">>
DESTDIR == <<"/", "o">>
SUFFIX == <<"r", "s", "t">>

\* makename(package, module)
makename(package, module) ==
    IF package # NONE /\ package # <<>>
    THEN IF module # NONE /\ module # <<>> THEN package \o <<".">> \o module ELSE package
    ELSE module

\* one line of a generated text: a directive or heading and its arguments
Line(k, a, b) == [k |-> k, a |-> a, b |-> b]

\* format_heading(level, text)
format_heading(level, text, what) == <<Line("heading", <<level>>, text \o <<" ">> \o what)>>

----------------------------------------------------------------------------
(* The effects of a step: the destination, the log and the exception       *)
(* raised so far.  Once an exception is raised nothing more happens.       *)

Ctx(d, l, e) == [dest |-> d, log |-> l, err |-> e]

\* a mutant of Raise: the exception is noted and swallowed
Raise_swallowed(c, exc, what) ==
    IF c.err # "none" THEN c
    ELSE Ctx(c.dest, Append(c.log, Line(exc, what, <<"raised">>)), c.err)

\* raise exc: the exception is noted in the log and ends the step
Raise(c, exc, what) ==
    IF c.err # "none" THEN c
    ELSE Ctx(c.dest, Append(c.log, Line(exc, what, <<"raised">>)), exc)

\* a mutant of write_file: the file is opened for appending
write_file_append(c, name, text, destdir, suffix) ==
    LET fname == join(destdir, name \o <<".">> \o suffix)
        old == IF fname \in DOMAIN c.dest THEN c.dest[fname] ELSE <<>>
    IN IF c.err # "none" THEN c
       ELSE Ctx((fname :> (old \o text)) @@ c.dest,
                Append(c.log, Line("write", fname, <<>>)), c.err)

\* write_file(name, text, destdir, suffix)
write_file(c, name, text, destdir, suffix) ==
    LET fname == join(destdir, name \o <<".">> \o suffix)
    IN IF c.err # "none" THEN c
       ELSE Ctx((fname :> text) @@ c.dest,
                Append(c.log, Line("write", fname, <<>>)), c.err)

----------------------------------------------------------------------------
(* The import system                                                       *)
(* env.cbind: what each package binds the name C to: NONE, or the module   *)
(*            the bound object was defined in;                             *)
(* env.broken: the modules whose load raises ImportError;                  *)
(* env.fromfail: the pairs <<package, name>> for which the package has a   *)
(*            submodule of that name whose load raises ImportError.        *)

nC == <<"C">>
nP == <<"P">>
nf == <<"f">>
nv == <<"v">>
n_h == <<"_", "h">>

mBrian == BASENAME
mA == BASENAME \o <<".", "a">>
mAB == BASENAME \o <<".", "a", "b">>
mAS == BASENAME \o <<".", "a", ".", "s">>
mAm == BASENAME \o <<".", "a", ".", "m">>
mAZ == BASENAME \o <<".", "a", ".", "Z">>
PkgNames == {mBrian, mA, mAB, mAS}

Obj(m, k) == [module |-> m, kind |-> k]
\* the None that getattr(..., None) returns for a name that is not bound
NoObj == Obj(NONE, "none")

\* what a module binds: a package binds its own class P and possibly C; any
\* other module defines class C, function _h and object v, and imports f
\* from brian2.a.Z
Bindings(e, mod) ==
    IF mod \in PkgNames
    THEN (nP :> Obj(mod, "class"))
         @@ (IF e.cbind[mod] # NONE THEN (nC :> Obj(e.cbind[mod], "class")) ELSE <<>>)
    ELSE (nC :> Obj(mod, "class")) @@ (nf :> Obj(mAZ, "function"))
         @@ (n_h :> Obj(mod, "function")) @@ (nv :> Obj(mod, "other"))

\* dir(mod): the bound names, sorted
dir(e, mod) == sorted(CHOOSE s \in Listings(DOMAIN Bindings(e, mod)) : TRUE)

\* whether __import__(name, ..., fromlist=[member]) raises ImportError
ImportRaises(e, name, member) ==
    \/ name \in e.broken
    \/ (member # NONE /\ member \notin DOMAIN Bindings(e, name)
        /\ <<name, member>> \in e.fromfail)

\* getattr(module, name, None)
GetAttr(e, mod, name) ==
    IF name \in DOMAIN Bindings(e, mod) THEN Bindings(e, mod)[name] ELSE NoObj

\* getattr(obj, "__module__", None)
ModuleOf(obj) == obj.module

----------------------------------------------------------------------------
(* find_shortest_import                                                    *)

\* a mutant of ImportMatches: any bound object is accepted
ImportMatches_any(e, prefix, module_name, obj_name) ==
    GetAttr(e, prefix, obj_name) # NoObj

\* lines 107-111: the object fetched from the prefix is the module's own
ImportMatches(e, prefix, module_name, obj_name) ==
    LET result_obj == GetAttr(e, prefix, obj_name)
    IN result_obj # NoObj /\ ModuleOf(result_obj) = module_name

\* the loop of find_shortest_import from prefix length idx on: the prefix
\* found, or NONE when the loop ends, and the prefixes whose ImportError
\* was caught
RECURSIVE ShortestFrom(_, _, _, _, _, _)
ShortestFrom(e, parts, idx, module_name, obj_name, caught) ==
    IF idx > Len(parts) THEN [path |-> NONE, caught |-> caught]
    ELSE LET prefix == JoinWith(SubSeq(parts, 1, idx), ".") IN
         IF ImportRaises(e, prefix, obj_name)
         THEN ShortestFrom(e, parts, idx + 1, module_name, obj_name, Append(caught, prefix))
         ELSE IF ImportMatches(e, prefix, module_name, obj_name)
         THEN [path |-> prefix, caught |-> caught]
         ELSE ShortestFrom(e, parts, idx + 1, module_name, obj_name, caught)

\* find_shortest_import(module_name, obj_name); path = NONE stands for the
\* AssertionError of line 116
find_shortest_import(e, module_name, obj_name) ==
    ShortestFrom(e, Split(module_name, "."), 1, module_name, obj_name, <<>>)

\* the caught ImportErrors, added to the log
RECURSIVE LogCaught(_, _)
LogCaught(l, caught) ==
    IF caught = <<>> THEN l
    ELSE LogCaught(Append(l, Line("ImportError", Head(caught), <<"caught">>)), Tail(caught))

----------------------------------------------------------------------------
(* Stub files of symbols                                                   *)

\* lines 122-140, with the result of find_shortest_import
MemberFile(c, found, module_name, member, member_obj, destdir) ==
    LET c1 == Ctx(c.dest, LogCaught(c.log, found.caught), c.err)
        import_text == <<Line("shortest_import", found.path, member)>>
        text == <<Line("currentmodule", module_name, <<>>)>>
                \o (IF member_obj.kind = "class"
                    THEN format_heading("1", member, <<"class">>) \o import_text
                         \o <<Line("autoclass", member, <<>>), Line("examples", member, <<>>)>>
                    ELSE IF member_obj.kind = "function"
                    THEN format_heading("1", member, <<"function">>) \o import_text
                         \o <<Line("autofunction", member, <<>>)>>
                    ELSE format_heading("1", member, <<"object">>) \o import_text
                         \o <<Line("autodata", member, <<>>)>>)
    IN IF c.err # "none" THEN c
       ELSE IF found.path = NONE
       THEN Raise(c1, "AssertionError", makename(module_name, member))
       ELSE write_file(c1, makename(module_name, member), text, destdir, SUFFIX)

\* create_member_file(module_name, member, member_obj, destdir)
create_member_file(c, e, module_name, member, member_obj, destdir) ==
    MemberFile(c, find_shortest_import(e, module_name, member), module_name, member,
               member_obj, destdir)

----------------------------------------------------------------------------
(* format_directive                                                        *)

\* a mutant of IsDocumented: the origin is not compared
IsDocumented_imported(full_name, member, member_obj) ==
    ~StartsWith(member, <<"_">>)

\* line 70: only members defined in this module, and not private
IsDocumented(full_name, member, member_obj) ==
    ModuleOf(member_obj) = full_name /\ ~StartsWith(member, <<"_">>)

\* lines 65-76: the documented members of one kind, in dir() order
RECURSIVE MembersOfKind(_, _, _, _)
MembersOfKind(e, full_name, names, kind) ==
    IF names = <<>> THEN <<>>
    ELSE LET member == Head(names)
             member_obj == GetAttr(e, full_name, member)
         IN (IF IsDocumented(full_name, member, member_obj) /\ member_obj.kind = kind
             THEN <<member>> ELSE <<>>)
            \o MembersOfKind(e, full_name, Tail(names), kind)

\* lines 78-95: the summary of one group and the stub files of its members
RECURSIVE FormatGroup(_, _, _, _, _, _)
FormatGroup(r, e, full_name, members, title, destdir) ==
    IF members = <<>> THEN r
    ELSE LET member == Head(members)
             c1 == create_member_file(r.c, e, full_name, member,
                                      GetAttr(e, full_name, member), destdir)
             t1 == r.text \o (IF title # <<>> THEN <<Line("group", title, <<>>)>> ELSE <<>>)
                   \o <<Line("autosummary", member, <<"toctree">>)>>
         IN IF r.c.err # "none" THEN r
            ELSE FormatGroup([c |-> c1, text |-> t1], e, full_name, Tail(members), <<>>, destdir)

\* format_directive(module, destdir, package): the effects and the text
format_directive(c, e, module, destdir, package) ==
    LET directive == <<Line("automodule", makename(package, module), <<>>),
                       Line("option", <<"show-inheritance">>, <<>>)>>
        full_name == BASENAME \o <<".">> \o module
        names == dir(e, full_name)
        classes == MembersOfKind(e, full_name, names, "class")
        functions == MembersOfKind(e, full_name, names, "function")
        variables == MembersOfKind(e, full_name, names, "other")
        r0 == [c |-> c, text |-> directive]
        r1 == FormatGroup(r0, e, full_name, classes, <<"Classes">>, destdir)
        r2 == FormatGroup(r1, e, full_name, functions, <<"Functions">>, destdir)
        r3 == FormatGroup(r2, e, full_name, variables, <<"Objects">>, destdir)
    IN IF c.err # "none" THEN r0
       ELSE IF ImportRaises(e, full_name, NONE)
       THEN [c |-> Raise(c, "ImportError", full_name), text |-> directive]
       ELSE r3

----------------------------------------------------------------------------
(* The source tree                                                         *)

isdir(f, p) == p \in f.dirs
isfile(f, p) == p \in DOMAIN f.files
getsize(f, p) == f.files[p]

\* the names os.walk finds in directory root: its subdirectories, its files
SubNames(f, root) == {basename(p) : p \in {q \in f.dirs : q # root /\ dirname(q) = root}}
FileNames(f, root) == {basename(p) : p \in {q \in DOMAIN f.files : dirname(q) = root}}

TRIVIAL_SIZE == 2

\* shall_skip(module)
shall_skip(f, module) == getsize(f, module) <= TRIVIAL_SIZE

----------------------------------------------------------------------------
(* create_package_file                                                     *)

\* lines 159-163: the heading and the directive of a module are added to
\* the text
AddBlock(r, heading, d) == [c |-> d.c, text |-> r.text \o heading \o d.text]

\* lines 150-163: the blocks of the modules of the package
RECURSIVE ModuleBlocks(_, _, _, _, _, _, _, _)
ModuleBlocks(r, e, f, root, master_package, subroot, py_files, destdir) ==
    IF py_files = <<>> \/ r.c.err # "none" THEN r
    ELSE LET py_file0 == Head(py_files)
             is_package == py_file0 = INITPY
             py_file == splitext(py_file0)[1]
             py_path == makename(subroot, py_file)
             heading == IF ~is_package
                        THEN format_heading("2", py_file, <<"module">>) ELSE <<>>
             module == IF is_package /\ subroot # <<>> THEN subroot ELSE py_path
         IN IF shall_skip(f, join(root, py_file0))
            THEN ModuleBlocks(r, e, f, root, master_package, subroot, Tail(py_files), destdir)
            ELSE ModuleBlocks(AddBlock(r, heading,
                                       format_directive(r.c, e, module, destdir, master_package)),
                              e, f, root, master_package, subroot, Tail(py_files), destdir)

\* line 166: the subdirectories that are packages
RECURSIVE PackageSubs(_, _, _)
PackageSubs(f, root, subs) ==
    IF subs = <<>> THEN <<>>
    ELSE (IF isfile(f, join(join(root, Head(subs)), INITPY)) THEN <<Head(subs)>> ELSE <<>>)
         \o PackageSubs(f, root, Tail(subs))

\* lines 172-174: the entries of the table of subpackages
RECURSIVE TocEntries(_, _, _, _, _)
TocEntries(root, master_package, subroot, subs, excludes) ==
    IF subs = <<>> THEN <<>>
    ELSE (IF ~is_excluded(join(root, Head(subs)), excludes)
          THEN <<Line("toctree", makename(master_package, subroot) \o <<".">> \o Head(subs), <<>>)>>
          ELSE <<>>)
         \o TocEntries(root, master_package, subroot, Tail(subs), excludes)

\* lines 166-175: the table of the subpackages psubs
Toc(root, master_package, subroot, psubs, excludes) ==
    IF psubs # <<>>
    THEN format_heading("2", <<>>, <<"Subpackages">>)
         \o TocEntries(root, master_package, subroot, psubs, excludes)
    ELSE <<>>

\* line 177: the page is written
WritePage(r, toc, name, destdir) == write_file(r.c, name, r.text \o toc, destdir, SUFFIX)

\* create_package_file(root, master_package, subroot, py_files, subs, destdir, excludes)
create_package_file(c, e, f, root, master_package, subroot, py_files, subs, destdir, excludes) ==
    WritePage(ModuleBlocks([c |-> c, text |-> format_heading("1", basename(root), <<"package">>)],
                           e, f, root, master_package, subroot, py_files, destdir),
              Toc(root, master_package, subroot, PackageSubs(f, root, subs), excludes),
              makename(master_package, subroot), destdir)

----------------------------------------------------------------------------
(* recurse_tree                                                            *)

\* lines 208-212: the module files that are not blacklisted, as listed
RECURSIVE PyFilesListed(_, _)
PyFilesListed(files, excluded) ==
    IF files = <<>> THEN <<>>
    ELSE (IF splitext(Head(files))[2] = PYEXT /\ Head(files) \notin excluded
          THEN <<Head(files)>> ELSE <<>>)
         \o PyFilesListed(Tail(files), excluded)

\* lines 207-213: the module files, sorted
PyFiles(files, excluded) == sorted(PyFilesListed(files, excluded))

\* a mutant of MarkerFirst: the marker file stays where sorting put it
MarkerFirst_kept(py_files) == py_files

\* lines 216-217: the marker file is moved to the front
MarkerFirst(py_files) == <<INITPY>> \o Filter(py_files, Range(py_files) \ {INITPY})

\* line 223: the subdirectories that are neither hidden nor private, as listed
RECURSIVE VisibleSubs_listed(_)
VisibleSubs_listed(subs) ==
    IF subs = <<>> THEN <<>>
    ELSE (IF Head(subs)[1] \notin {".", "_"} THEN <<Head(subs)>> ELSE <<>>)
         \o VisibleSubs_listed(Tail(subs))

\* line 223: subs[:] = sorted(...)
VisibleSubs(subs) == sorted(VisibleSubs_listed(subs))

\* line 227: the package has something to document
HasContent(f, root, py_files, subs) ==
    subs # <<>> \/ Len(py_files) > 1 \/ ~shall_skip(f, join(root, INITPY))

\* line 218: a directory without the marker file below the root is pruned
PruneNonPackage(root, rp, is_pkg) == ~is_pkg /\ root # rp

\* a mutant of PrunedSubs: the walk still descends below the directory
PrunedSubs_kept(subs) == subs

\* line 220: del subs[:], nothing below the directory is walked
PrunedSubs(subs) == <<>>

\* a mutant of ExpectedPackage: a root that is no package is passed over
ExpectedPackage_ignored(c, root) == c

\* lines 241-242: raise AssertionError("Expected it to be a package")
ExpectedPackage(c, root) == Raise(c, "AssertionError", root)

\* line 240: the package is added to the list, unless the page raised
Documented(c1, subs, tops, name) ==
    [c |-> c1, subs |-> subs,
     toplevels |-> IF c1.err = "none" THEN Append(tops, name) ELSE tops]

\* lines 203-242: one iteration of the loop over os.walk, for directory
\* root listed as (subs0, files0): the effects, the subdirectories left to
\* walk and the package list
WalkBody(c, e, f, rp, rpkg, excl_dirs, excl_files, tops, root, subs0, files0) ==
    LET py0 == PyFiles(files0, excl_files)
        is_pkg == INITPY \in Range(py0)
        py_files == IF is_pkg THEN MarkerFirst(py0) ELSE py0
        subs == VisibleSubs(subs0)
        subpackage == Replace(LStrip(SubSeq(root, Len(rp) + 1, Len(root)), sep), sep, ".")
        skip == [c |-> c, subs |-> <<>>, toplevels |-> tops]
    IN IF is_excluded(root, excl_dirs) THEN skip
       ELSE IF PruneNonPackage(root, rp, is_pkg)
       THEN [c |-> c, subs |-> PrunedSubs(subs0), toplevels |-> tops]
       ELSE IF ~is_pkg
       THEN [c |-> ExpectedPackage(c, root), subs |-> subs, toplevels |-> tops]
       ELSE IF HasContent(f, root, py_files, subs)
       THEN Documented(create_package_file(c, e, f, root, rpkg, subpackage, py_files,
                                           subs, DESTDIR, excl_dirs),
                       subs, tops, makename(rpkg, subpackage))
       ELSE [c |-> c, subs |-> subs, toplevels |-> tops]

\* the paths os.walk descends into, in the order of subs
SubPaths(root, subs) == [i \in 1..Len(subs) |-> join(root, subs[i])]

----------------------------------------------------------------------------
(* The trees, arguments and import systems the runs start from             *)

MaxRuns == 2

ROOT == join(CWD, BASENAME)
dA == join(ROOT, <<"a">>)
dAB == join(ROOT, <<"a", "b">>)
dAS == join(dA, <<"s">>)
fM == <<"m", ".", "p", "y">>
fZ == <<"Z", ".", "p", "y">>
fN == <<"n", ".", "t", "x", "t">>

\* the content of a directory: whether it exists, and file name -> size
Content(names, size) == [exists |-> TRUE, names |-> names, size |-> size]
Absent == [exists |-> FALSE, names |-> {}, size |-> [n \in {INITPY} |-> 0]]
NoFiles == Content({}, [n \in {INITPY} |-> 0])
PlainPy == Content({fM, fN}, [n \in {fM, fN} |-> TRIVIAL_SIZE + 1])
TrivialPkg == Content({INITPY}, [n \in {INITPY} |-> TRIVIAL_SIZE])
EmptyMarkerPkg ==
    Content({INITPY, fM}, [n \in {INITPY, fM} |-> IF n = INITPY THEN 0 ELSE TRIVIAL_SIZE + 1])
MarkerPkg == Content({INITPY}, [n \in {INITPY} |-> TRIVIAL_SIZE + 1])
FullPkg == Content({INITPY, fZ, fM}, [n \in {INITPY, fZ, fM} |-> TRIVIAL_SIZE + 1])

FilesIn(d, content) ==
    [p \in {join(d, n) : n \in content.names} |-> content.size[basename(p)]]

\* the tree with the given contents of brian2, brian2/a, brian2/ab, brian2/a/s
MkTree(pr, pa, pab, ps) ==
    [dirs |-> {d \in {ROOT, dA, dAB, dAS} :
                  \/ (d = ROOT /\ pr.exists)
                  \/ (d = dA /\ pa.exists)
                  \/ (d = dAB /\ pab.exists)
                  \/ (d = dAS /\ ps.exists)},
     files |-> FilesIn(ROOT, pr) @@ FilesIn(dA, pa) @@ FilesIn(dAB, pab) @@ FilesIn(dAS, ps)]

MissingRoot == [dirs |-> {}, files |-> FilesIn(ROOT, NoFiles)]
RootIsFile == [dirs |-> {}, files |-> [p \in {ROOT} |-> TRIVIAL_SIZE + 1]]

\* a tree is well formed when every directory but the root lies in a directory
WellFormed(f) == \A d \in f.dirs : d = ROOT \/ dirname(d) \in f.dirs

Trees ==
    {f \in {MkTree(pr, pa, pab, ps) :
                pr \in {TrivialPkg, MarkerPkg},
                pa \in {Absent, PlainPy, TrivialPkg, EmptyMarkerPkg, FullPkg},
                pab \in {Absent, MarkerPkg},
                ps \in {Absent, NoFiles, TrivialPkg, MarkerPkg}} : WellFormed(f)}
    \cup {MkTree(PlainPy, Absent, Absent, Absent), MkTree(PlainPy, MarkerPkg, Absent, Absent),
          MissingRoot, RootIsFile}

NoBinding == [m \in PkgNames |-> NONE]
MkEnv(cb, br, ff) == [cbind |-> cb, broken |-> br, fromfail |-> ff]

\* the import systems of the runs: nothing re-exported and nothing fails;
\* C of brian2.a.m is re-exported by brian2.a, and brian2 has submodules C
\* and v that fail to load; brian2.a.m fails to load, and so does the
\* submodule C of brian2
WalkEnvs ==
    {MkEnv(NoBinding, {}, {}),
     MkEnv([NoBinding EXCEPT ![mA] = mAm], {}, {<<mBrian, nC>>, <<mBrian, nv>>}),
     MkEnv(NoBinding, {mAm}, {<<mBrian, nC>>})}

StaleFile == join(DESTDIR, BASENAME \o <<".">> \o SUFFIX)
StaleText == <<Line("stale", <<>>, <<>>)>>

Idle == [root |-> <<>>, excludes |-> <<>>]

Init ==
    /\ fs \in Trees
    /\ rootarg \in {ROOT, BASENAME}
    /\ raw_excludes \in {<<>>, <<<<"a">>>>, <<dA>>}
    /\ exclude_files \in {{}, {fM}}
    /\ env \in WalkEnvs
    /\ status = "init"
    /\ error = "none"
    /\ destdir_exists \in BOOLEAN
    /\ dest = (IF destdir_exists THEN (StaleFile :> StaleText) ELSE <<>>)
    /\ exclude_dirs = <<>>
    /\ rootpath = <<>>
    /\ root_package = NONE
    /\ stack = <<>>
    /\ toplevels = <<>>
    /\ log = <<>>
    /\ run = 0
    /\ prev = [dest |-> <<>>, toplevels |-> <<>>]
    /\ pc = "idle"
    /\ args = Idle
    /\ result = FALSE

----------------------------------------------------------------------------
(* main                                                                    *)

\* main, lines 279-282, and recurse_tree up to its loop, lines 193-201: a
\* first run, or a further run after a run that completed
MainStart ==
    /\ status = "init" \/ (status = "done" /\ run < MaxRuns)
    /\ run' = run + 1
    /\ prev' = IF status = "done" THEN [dest |-> dest, toplevels |-> toplevels] ELSE prev
    /\ destdir_exists' = TRUE
    /\ exclude_dirs' = normalize_excludes(rootarg, raw_excludes)
    /\ rootpath' = normpath(abspath(rootarg))
    /\ toplevels' = <<>>
    /\ LET made == IF ~destdir_exists THEN <<Line("makedirs", DESTDIR, <<>>)>> ELSE <<>> IN
       IF isdir(fs, rootpath')
       THEN /\ root_package' = IF INITPY \in FileNames(fs, rootpath') \cup SubNames(fs, rootpath')
                               THEN basename(rootpath') ELSE NONE
            /\ stack' = <<rootpath'>>
            /\ status' = "walking"
            /\ error' = "none"
            /\ log' = made
       ELSE /\ root_package' = NONE
            /\ stack' = <<>>
            /\ status' = "error"
            /\ error' = "OSError"
            /\ log' = Append(made, Line("OSError", rootpath', <<"raised">>))
    /\ UNCHANGED <<fs, rootarg, raw_excludes, exclude_files, env, dest, callVars>>

\* the outcome r of an iteration becomes the state: os.walk goes on with
\* the subdirectories left in subs, or the exception ends the run
StepTaken(r, root) ==
    /\ dest' = r.c.dest
    /\ log' = r.c.log
    /\ toplevels' = r.toplevels
    /\ IF r.c.err = "none"
       THEN /\ stack' = SubPaths(root, r.subs) \o Tail(stack)
            /\ UNCHANGED <<status, error>>
       ELSE /\ stack' = <<>>
            /\ status' = "error"
            /\ error' = r.c.err

\* one iteration of the loop of recurse_tree, lines 202-242: os.walk lists
\* the next directory in some order
WalkStep ==
    /\ status = "walking"
    /\ stack # <<>>
    /\ \E subs0 \in Listings(SubNames(fs, Head(stack))),
          files0 \in Listings(FileNames(fs, Head(stack))) :
          StepTaken(WalkBody(Ctx(dest, log, "none"), env, fs, rootpath, root_package,
                             exclude_dirs, exclude_files, toplevels, Head(stack), subs0, files0),
                    Head(stack))
    /\ UNCHANGED <<fs, rootarg, raw_excludes, exclude_files, env, destdir_exists,
                   exclude_dirs, rootpath, root_package, run, prev, callVars>>

\* line 244 and the end of main: os.walk is exhausted
WalkDone ==
    /\ status = "walking"
    /\ stack = <<>>
    /\ status' = "done"
    /\ UNCHANGED <<fs, rootarg, raw_excludes, exclude_files, env, error, destdir_exists,
                   dest, exclude_dirs, rootpath, root_package, stack, toplevels, log,
                   run, prev, callVars>>

Next == MainStart \/ WalkStep \/ WalkDone

Spec == Init /\ [][Next]_vars

----------------------------------------------------------------------------
(* Direct calls of is_excluded                                             *)

MaxLen == 3
MaxRuleLen == 2
MaxRules == 2

PathChars == {sep, "a", "b"}
Strs(n) == UNION {[1..k -> PathChars] : k \in 0..n}
\* normalized rules end with the separator
Rules == {r \in Strs(MaxRuleLen) : EndsWith(r, <<sep>>)}
RuleLists == UNION {[1..k -> Rules] : k \in 0..MaxRules}

NoRun ==
    /\ fs = MissingRoot
    /\ rootarg = ROOT
    /\ raw_excludes = <<>>
    /\ exclude_files = {}
    /\ status = "idle"
    /\ error = "none"
    /\ destdir_exists = FALSE
    /\ dest = <<>>
    /\ exclude_dirs = <<>>
    /\ rootpath = <<>>
    /\ root_package = NONE
    /\ stack = <<>>
    /\ toplevels = <<>>
    /\ log = <<>>
    /\ run = 0
    /\ prev = [dest |-> <<>>, toplevels |-> <<>>]

InitExcl ==
    /\ NoRun
    /\ env = MkEnv(NoBinding, {}, {})
    /\ pc = "ready"
    /\ args \in [root : Strs(MaxLen), excludes : RuleLists]
    /\ result = FALSE

CallIsExcluded ==
    /\ pc = "ready"
    /\ pc' = "called"
    /\ result' = is_excluded(args.root, args.excludes)
    /\ UNCHANGED <<walkVars, args>>

SpecExcl == InitExcl /\ [][CallIsExcluded]_vars

----------------------------------------------------------------------------
(* Direct calls of format_directive and find_shortest_import               *)

RelAm == <<"a", ".", "m">>
RelAZ == <<"a", ".", "Z">>
RelA == <<"a">>
Names == {nC, nP, nf, nv, n_h}

\* brian2 and brian2.a each leave C unbound, bind it to the class of
\* brian2.a.m or bind it to the class of brian2.a
ImportEnvs ==
    {MkEnv([NoBinding EXCEPT ![mBrian] = b1, ![mA] = b2], br, ff) :
        b1 \in {NONE, mAm, mA}, b2 \in {NONE, mAm, mA},
        br \in {{}, {mAm}},
        ff \in SUBSET {<<mBrian, nC>>, <<mA, nC>>}}

InitImport ==
    /\ NoRun
    /\ env \in ImportEnvs
    /\ pc = "ready"
    /\ args \in [module : {RelAm, RelAZ, RelA}, member : Names]
    /\ result = FALSE

FullName(module) == BASENAME \o <<".">> \o module

\* create_member_file's call, line 124
CallFindShortest ==
    /\ pc = "ready"
    /\ pc' = "found"
    /\ result' = find_shortest_import(env, FullName(args.module), args.member)
    /\ UNCHANGED <<walkVars, args>>

\* create_package_file's call, lines 160-162
CallFormatDirective ==
    /\ pc = "ready"
    /\ pc' = "formatted"
    /\ result' = format_directive(Ctx(<<>>, <<>>, "none"), env, args.module, DESTDIR, BASENAME)
    /\ UNCHANGED <<walkVars, args>>

NextImport == CallFindShortest \/ CallFormatDirective

SpecImport == InitImport /\ [][NextImport]_vars

----------------------------------------------------------------------------
(* Properties of the direct calls                                          *)

WithSep(path) == IF EndsWith(path, <<sep>>) THEN path ELSE path \o <<sep>>
FooRule == <<"a", sep>>
FooBar == <<"a", "b">>

\* C1: is_excluded(C, rules) is true exactly when C, with a trailing
\* separator appended when it has none, starts with at least one of the
\* rules; a rule for a directory never excludes a sibling whose name only
\* starts with the directory's name.
C1_ExcludedIffPrefix ==
    pc = "called" =>
        /\ result = (\E i \in DOMAIN args.excludes :
                        StartsWith(WithSep(args.root), args.excludes[i]))
        /\ \A i \in DOMAIN args.excludes :
              LET name == SubSeq(args.excludes[i], 1, Len(args.excludes[i]) - 1) IN
              (/\ Len(args.excludes) = 1
               /\ StartsWith(args.root, name)
               /\ Len(args.root) > Len(name)
               /\ args.root[Len(name) + 1] # sep) => ~result

\* the rule "a/" was tested against the sibling "ab" and against "a" itself
C1_Witness ==
    /\ pc = "called"
    /\ args.excludes = <<FooRule>>
    /\ args.root = FooBar
    /\ ~result

\* the names format_directive listed in its summaries
Listed(text) == {text[i].a : i \in {j \in DOMAIN text : text[j].k = "autosummary"}}
\* the stub file of a symbol of a module
StubOf(full_name, name) == join(DESTDIR, full_name \o <<".">> \o name \o <<".">> \o SUFFIX)

\* C3: format_directive lists a name of module M, and writes a stub for it,
\* only if the bound object's __module__ is M's full dotted name and the
\* name does not start with "_"; a name imported from another module gets
\* no stub under M.
C3_OnlyOwnPublicMembers ==
    pc = "formatted" =>
        \A name \in Names :
            LET full == FullName(args.module)
                obj == GetAttr(env, full, name)
            IN (name \in Listed(result.text) \/ StubOf(full, name) \in DOMAIN result.c.dest)
               => (obj.module = full /\ name[1] # "_")

\* brian2.a.m was documented: its class C got a stub, the imported f and
\* the private _h did not
C3_Witness ==
    /\ pc = "formatted"
    /\ args.module = RelAm
    /\ StubOf(mAm, nC) \in DOMAIN result.c.dest
    /\ GetAttr(env, mAm, nf).module = mAZ
    /\ GetAttr(env, mAm, n_h).module = mAm
    /\ nf \notin Listed(result.text)
    /\ StubOf(mAm, nf) \notin DOMAIN result.c.dest
    /\ StubOf(mAm, n_h) \notin DOMAIN result.c.dest

\* the dotted prefixes of a module name, by number of components
PrefixOf(module_name, k) == JoinWith(SubSeq(Split(module_name, "."), 1, k), ".")
Depth(module_name) == Len(Split(module_name, "."))
\* loading the prefix and fetching the name yields the module's own object
Resolves(e, prefix, module_name, name) ==
    /\ ~ImportRaises(e, prefix, name)
    /\ GetAttr(e, prefix, name).module = module_name
\* the module is loaded and the object it binds to the name is its own
Owns(e, module_name, name) ==
    /\ module_name \notin e.broken
    /\ GetAttr(e, module_name, name).module = module_name

\* C4: for a symbol S owned by module M, find_shortest_import(M, S) does not
\* raise and returns the shortest dotted prefix of M from which S resolves
\* to M's object: the depth-k prefix when S is re-exported from depth k on
\* and not above, M itself when S is re-exported nowhere.
C4_ShortestPrefix ==
    (pc = "found" /\ Owns(env, FullName(args.module), args.member)) =>
        LET M == FullName(args.module)
            S == args.member
            d == Depth(M)
        IN /\ result.path # NONE
           /\ \E k \in 1..d :
                 /\ result.path = PrefixOf(M, k)
                 /\ Resolves(env, PrefixOf(M, k), M, S)
                 /\ \A j \in 1..(k - 1) : ~Resolves(env, PrefixOf(M, j), M, S)
           /\ \A k \in 1..d :
                 (/\ \A j \in k..d : Resolves(env, PrefixOf(M, j), M, S)
                  /\ \A j \in 1..(k - 1) : ~Resolves(env, PrefixOf(M, j), M, S))
                 => result.path = PrefixOf(M, k)
           /\ (\A j \in 1..(d - 1) : GetAttr(env, PrefixOf(M, j), S).module # M)
                 => result.path = M

\* C of brian2.a.m is re-exported by brian2.a and not by brian2, which binds
\* another class to the name: the search returned brian2.a
C4_Witness ==
    /\ pc = "found"
    /\ args.module = RelAm
    /\ args.member = nC
    /\ Owns(env, mAm, nC)
    /\ env.cbind[mA] = mAm
    /\ env.cbind[mBrian] = mA
    /\ result.path = mA

----------------------------------------------------------------------------
(* Properties of the runs                                                  *)

\* the dotted name of a directory of the tree: its path below the working
\* directory, with dots
DottedName(d) == Replace(SubSeq(d, Len(CWD) + 2, Len(d)), sep, ".")
\* the stub file of a package
PageOf(d) == join(DESTDIR, DottedName(d) \o <<".">> \o SUFFIX)
\* the files written so far in this run
Written == {log[i].a : i \in {j \in DOMAIN log : log[j].k = "write"}}
\* the files of the destination that belong to a directory: its page and
\* the stubs of the symbols of its modules
FilesFor(d) == {n \in DOMAIN dest \cup Written :
                   StartsWith(n, join(DESTDIR, DottedName(d) \o <<".">>))}
HasMarker(d) == isfile(fs, join(d, INITPY))
Below(d, top) == StartsWith(d, top \o <<sep>>)

\* C2: a directory below the root without the marker file, and everything
\* in its subtree, gets no package stub and no symbol stub and is not in the
\* package list, whatever module files and marker files the subtree holds.
C2_NonPackagePruned ==
    status # "init" =>
        \A d \in fs.dirs :
            (Below(d, rootpath) /\ ~HasMarker(d)) =>
                \A d2 \in fs.dirs :
                    (d2 = d \/ Below(d2, d)) =>
                        /\ FilesFor(d2) = {}
                        /\ DottedName(d2) \notin Range(toplevels)

\* a run completed over a tree where brian2/a has module files and no
\* marker file and holds the package brian2/a/s
C2_Witness ==
    /\ status = "done"
    /\ dA \in fs.dirs /\ ~HasMarker(dA) /\ isfile(fs, join(dA, fM))
    /\ dAS \in fs.dirs /\ HasMarker(dAS) /\ ~shall_skip(fs, join(dAS, INITPY))
    /\ raw_excludes = <<>>
    /\ PageOf(ROOT) \in Written

\* the module files of a directory other than the marker file
OtherModules(d) == {n \in FileNames(fs, d) : splitext(n)[2] = PYEXT /\ n # INITPY}
\* the subdirectories of a directory that are packages
SubPackages(d) == {n \in SubNames(fs, d) : HasMarker(join(d, n))}

\* C5: a package whose marker file is 0 to 2 bytes long, with no other
\* module file and no subpackages, gets no stub file and is not in the
\* package list.
C5_TrivialPackageSkipped ==
    status # "init" =>
        \A d \in fs.dirs :
            (/\ d = rootpath \/ Below(d, rootpath)
             /\ HasMarker(d)
             /\ getsize(fs, join(d, INITPY)) <= 2
             /\ OtherModules(d) = {}
             /\ SubPackages(d) = {}) =>
                /\ PageOf(d) \notin Written
                /\ DottedName(d) \notin Range(toplevels)


\* the pages of packages in the destination
IsPage(n) == dest[n] # <<>> /\ dest[n][1].k = "heading" /\ EndsWith(dest[n][1].b, <<"package">>)
Pages == {n \in DOMAIN dest : IsPage(n)}
\* the package a page is about: its file name without directory and suffix
PackageOfPage(n) == SubSeq(n, Len(DESTDIR) + 2, Len(n) - Len(SUFFIX) - 1)
\* the arguments of the lines of one kind of a text, in order
RECURSIVE LinesOf(_, _)
LinesOf(text, kind) ==
    IF text = <<>> THEN <<>>
    ELSE (IF Head(text).k = kind THEN <<Head(text).a>> ELSE <<>>) \o LinesOf(Tail(text), kind)
\* the file a module block of a page was made from
FileOfBlock(name, package) ==
    IF name = package THEN INITPY
    ELSE LET parts == Split(name, ".") IN parts[Len(parts)] \o PYEXT

\* C6: in every package page the subpackages of the navigation block are in
\* ascending order, and the module blocks are in ascending order of file
\* name except that the block of the marker file, when present, is first.
C6_PageOrder ==
    \A n \in Pages :
        LET toc == LinesOf(dest[n], "toctree")
            blocks == LinesOf(dest[n], "automodule")
            file(i) == FileOfBlock(blocks[i], PackageOfPage(n))
        IN /\ \A i, j \in DOMAIN toc : i < j => StrLess(toc[i], toc[j])
           /\ \A i, j \in DOMAIN blocks :
                 i < j => /\ file(j) # INITPY
                          /\ file(i) = INITPY \/ StrLess(file(i), file(j))

\* the page of brian2.a holds the blocks of __init__.py, Z.py and m.py, and
\* the page of brian2 lists the subpackages a and ab
C6_Witness ==
    /\ status = "done"
    /\ PageOf(dA) \in Pages /\ PageOf(ROOT) \in Pages
    /\ LinesOf(dest[PageOf(dA)], "automodule") = <<mA, mAZ, mAm>>
    /\ LinesOf(dest[PageOf(ROOT)], "toctree") = <<mA, mAB>>

\* C7: a second run of main over the unchanged tree, with the same
\* arguments, leaves the destination with the same files and contents as
\* the first and returns the same package list, whatever the order in
\* which the directories were listed in either run.
C7_Idempotent ==
    (status = "done" /\ run >= 2) => (dest = prev.dest /\ toplevels = prev.toplevels)

\* two runs completed and wrote the pages of brian2 and brian2.a and the
\* stubs of the symbols of brian2.a.m
C7_Witness ==
    /\ status = "done" /\ run = 2
    /\ {PageOf(ROOT), PageOf(dA), StubOf(mAm, nC)} \subseteq Written
    /\ StaleFile \in DOMAIN prev.dest

\* the positions of the log that hold a load failure
LoadFailures == {i \in DOMAIN log : log[i].k = "ImportError"}
WritesAfter(i) == {j \in DOMAIN log : j > i /\ log[j].k = "write"}

\* C8 as stated: every failure of a dynamic load, also of a prefix inside
\* find_shortest_import, propagates and aborts the run; it is never caught
\* and no stub file is written after it.
C8_Original ==
    \A i \in LoadFailures :
        /\ log[i].b = <<"raised">>
        /\ status = "error"
        /\ WritesAfter(i) = {}

\* C8 as amended: a failure of the load of a module in format_directive
\* propagates and aborts the run, and no stub file is written after it; an
\* ImportError raised while find_shortest_import loads a prefix is caught
\* there, the search goes on with the longer prefixes and the stub of the
\* symbol is written.
C8_LoadFailure ==
    \A i \in LoadFailures :
        IF log[i].b = <<"raised">>
        THEN /\ i = Len(log)
             /\ status = "error" /\ error = "ImportError"
             /\ log[i].a \in env.broken
        ELSE /\ log[i].b = <<"caught">>
             /\ WritesAfter(i) # {}

\* a prefix failed to load inside find_shortest_import and the run went on
\* to write the page of brian2; then the load of brian2.a.m failed
C8_Witness ==
    /\ status = "error" /\ error = "ImportError"
    /\ log[Len(log)] = Line("ImportError", mAm, <<"raised">>)
    /\ PageOf(ROOT) \in Written
    /\ \E i \in LoadFailures : log[i].b = <<"caught">> /\ WritesAfter(i) # {}

\* what the root path is
RootMissing == rootpath \notin fs.dirs /\ rootpath \notin DOMAIN fs.files
RootNotDir == rootpath \in DOMAIN fs.files
RootNotPackage == rootpath \in fs.dirs /\ ~HasMarker(rootpath)
\* the root is a package with nothing to document below it
RootYieldsNothing ==
    /\ rootpath \in fs.dirs /\ HasMarker(rootpath)
    /\ \A d \in fs.dirs : (d = rootpath \/ Below(d, rootpath)) => PageOf(d) \notin Written
Finished == status \in {"done", "error"}
Made == \E i \in DOMAIN log : log[i].k = "makedirs"

C10_RulesAbsolute ==
    status # "init" =>
        /\ \A i \in DOMAIN exclude_dirs :
              LET rule == exclude_dirs[i]
                  path == SubSeq(rule, 1, Len(rule) - 1)
              IN /\ isabs(rule)
                 /\ EndsWith(rule, <<sep>>) /\ ~EndsWith(path, <<sep>>)
                 /\ normpath(path) = path
        /\ \A i \in DOMAIN raw_excludes :
              LET d == abspath(join(rootarg, raw_excludes[i])) IN
              (d \in fs.dirs /\ Below(d, rootpath)) => FilesFor(d) = {}

\* the pages of packages written in this run
PagesWritten == {n \in Written : n \in DOMAIN dest /\ IsPage(n)}
\* the subpackages named in the navigation block of a page
TocOf(n) == Range(LinesOf(dest[n], "toctree"))

\* C11: after a run of recurse_tree that completed without error, every
\* subpackage named in the navigation block of a package page written in
\* the run has its own stub file written in the run and is in the returned
\* package list.
C11_TocEntriesDocumented ==
    status = "done" =>
        \A n \in PagesWritten :
            \A sub \in TocOf(n) :
                /\ join(DESTDIR, sub \o <<".">> \o SUFFIX) \in Written
                /\ sub \in Range(toplevels)

====
